---- MODULE Spec2Model ----
(***************************************************************************)
(* hspell 1.4, gimatria.c: Hebrew numerals (gimatria).                     *)
(*                                                                         *)
(*   gim2int                     numeral string -> value                   *)
(*   int2gim                     value -> canonical numeral string         *)
(*   hspell_is_canonic_gimatria  w is canonical iff int2gim(gim2int(w))=w  *)
(*                                                                         *)
(* A C string is a sequence of characters (the bytes before the NUL).  A   *)
(* character is a TLA+ string naming it: the Hebrew letters by name, the   *)
(* final forms with the suffix _f, the two punctuation marks as            *)
(* themselves, any other byte by its ASCII spelling.                       *)
(* The letters of the case labels and of the tables are identified by the  *)
(* values the switch gives them, 1 to 400 in alphabet order; of two labels *)
(* with one value, the one the encoder's tables use is the regular form    *)
(* and the one the switch on b[-1] puts in its place is the final form.    *)
(*                                                                         *)
(* A 32-bit machine word is a record [hi, lo] of two 16-bit halves, so     *)
(* that the arithmetic of `unsigned int' and `int' is computed at its      *)
(* width.                                                                  *)
(***************************************************************************)
EXTENDS Integers, Sequences, FiniteSets, TLC

VARIABLES
    src,    \* "int": the run starts from an encoder argument; "str": from a string
    n,      \* the argument of int2gim (a 32-bit word)
    w,      \* the string handed to gim2int and to hspell_is_canonic_gimatria
    val,    \* what gim2int(w) returned
    buf,    \* what int2gim(val) left in its output buffer
    ret,    \* what hspell_is_canonic_gimatria(w) returned
    pc      \* which call comes next

vars == <<src, n, w, val, buf, ret, pc>>

(***************************************************************************)
(* Bounds of the model.                                                    *)
(***************************************************************************)
MaxN == 20000
MaxLen == 4

(***************************************************************************)
(* Sizes the source states.                                                *)
(***************************************************************************)
\* char buf[50] of hspell_is_canonic_gimatria
BufSize == 50

\* "30 characters is more then enough"
OutputBudget == 30

(***************************************************************************)
(* 32-bit words.                                                           *)
(***************************************************************************)
Base == 65536

Word(k) == [hi |-> k \div Base, lo |-> k % Base]

Zero == Word(0)

\* (unsigned) k for a negative int k > -Base: two's complement
AsUnsigned(k) == IF k >= 0 THEN Word(k) ELSE [hi |-> Base - 1, lo |-> Base + k]

IsZero(x) == x.hi = 0 /\ x.lo = 0

\* x * m, wrapped to 32 bits (m < 2^15)
Mul(x, m) ==
    LET l == x.lo * m
        h == x.hi * m + (l \div Base)
    IN  [hi |-> h % Base, lo |-> l % Base]

\* the product x * m of a non-negative int x exceeds INT_MAX
MulOverflows(x, m) == x.hi * m + ((x.lo * m) \div Base) >= Base \div 2

\* x + y, wrapped to 32 bits
Add(x, y) ==
    LET l == x.lo + y.lo
        h == x.hi + y.hi + (l \div Base)
    IN  [hi |-> h % Base, lo |-> l % Base]

\* the sum x + y of non-negative ints exceeds INT_MAX
AddOverflows(x, y) == x.hi + y.hi + ((x.lo + y.lo) \div Base) >= Base \div 2

\* x / d and x % d of an unsigned x (d <= 1000)
Div(x, d) ==
    [hi |-> x.hi \div d, lo |-> ((x.hi % d) * Base + x.lo) \div d]

Mod(x, d) == ((x.hi % d) * Base + x.lo) % d

(***************************************************************************)
(* Characters.                                                             *)
(***************************************************************************)
SEP == "'"
QUOTE == "\""

\* the switch of gim2int without the cases of the final forms
LetterValueNoFinals(c) ==
    CASE c = "alef" -> 1
      [] c = "bet" -> 2
      [] c = "gimel" -> 3
      [] c = "dalet" -> 4
      [] c = "he" -> 5
      [] c = "vav" -> 6
      [] c = "zayin" -> 7
      [] c = "het" -> 8
      [] c = "tet" -> 9
      [] c = "yod" -> 10
      [] c = "kaf" -> 20
      [] c = "lamed" -> 30
      [] c = "mem" -> 40
      [] c = "nun" -> 50
      [] c = "samekh" -> 60
      [] c = "ayin" -> 70
      [] c = "pe" -> 80
      [] c = "tsadi" -> 90
      [] c = "qof" -> 100
      [] c = "resh" -> 200
      [] c = "shin" -> 300
      [] c = "tav" -> 400
      [] OTHER -> 0

\* the switch of gim2int: what a letter adds (0: the character is ignored)
LetterValue(c) ==
    CASE c = "alef" -> 1
      [] c = "bet" -> 2
      [] c = "gimel" -> 3
      [] c = "dalet" -> 4
      [] c = "he" -> 5
      [] c = "vav" -> 6
      [] c = "zayin" -> 7
      [] c = "het" -> 8
      [] c = "tet" -> 9
      [] c = "yod" -> 10
      [] c \in {"kaf_f", "kaf"} -> 20
      [] c = "lamed" -> 30
      [] c \in {"mem_f", "mem"} -> 40
      [] c \in {"nun_f", "nun"} -> 50
      [] c = "samekh" -> 60
      [] c = "ayin" -> 70
      [] c \in {"pe_f", "pe"} -> 80
      [] c \in {"tsadi_f", "tsadi"} -> 90
      [] c = "qof" -> 100
      [] c = "resh" -> 200
      [] c = "shin" -> 300
      [] c = "tav" -> 400
      [] OTHER -> 0

(***************************************************************************)
(* gim2int.  The accumulator is an `int': [n, ub], ub once an operation    *)
(* on it has overflowed (undefined behaviour; n is then the wrapped word). *)
(***************************************************************************)
\* the loop of gim2int without the test if(w[1]): every ' multiplies
RECURSIVE gim2intFromNoEndCheck(_, _, _)
gim2intFromNoEndCheck(s, k, acc) ==
    IF k > Len(s) THEN acc
    ELSE IF s[k] = SEP
    THEN gim2intFromNoEndCheck(s, k + 1,
             [n |-> Mul(acc.n, 1000),
              ub |-> acc.ub \/ MulOverflows(acc.n, 1000)])
    ELSE gim2intFromNoEndCheck(s, k + 1,
             [n |-> Add(acc.n, Word(LetterValue(s[k]))),
              ub |-> acc.ub \/ AddOverflows(acc.n, Word(LetterValue(s[k])))])

RECURSIVE gim2intFrom(_, _, _)
gim2intFrom(s, k, acc) ==
    IF k > Len(s) THEN acc
    ELSE IF s[k] = SEP
    THEN IF k < Len(s)
         THEN gim2intFrom(s, k + 1,
                  [n |-> Mul(acc.n, 1000),
                   ub |-> acc.ub \/ MulOverflows(acc.n, 1000)])
         ELSE gim2intFrom(s, k + 1, acc)
    ELSE gim2intFrom(s, k + 1,
             [n |-> Add(acc.n, Word(LetterValue(s[k]))),
              ub |-> acc.ub \/ AddOverflows(acc.n, Word(LetterValue(s[k])))])

gim2int(s) == gim2intFrom(s, 1, [n |-> Zero, ub |-> FALSE])

\* what an overflowed computation may return besides the wrapped word
OverflowSample == {Zero, Word(1), Word(15), AsUnsigned(-1)}

\* the values a call gim2int(s) can return
gim2intReturns(s) ==
    LET r == gim2int(s)
    IN  IF r.ub THEN {r.n} \cup OverflowSample ELSE {r.n}

(***************************************************************************)
(* int2gim.                                                                *)
(***************************************************************************)
\* the hundreds from 500 on spelled as so many times 100
HundredsByRepetition(d) == [k \in 1..d |-> "qof"]

\* digits[i][d-1], in the order the characters are appended (before the reversal)
HundredsOver400(d) ==
    CASE d = 5 -> <<"qof", "tav">>
      [] d = 6 -> <<"resh", "tav">>
      [] d = 7 -> <<"shin", "tav">>
      [] d = 8 -> <<"tav", "tav">>
      [] d = 9 -> <<"qof", "tav", "tav">>

digits(i, d) ==
    CASE i = 0 -> <<<<"alef", "bet", "gimel", "dalet", "he", "vav", "zayin", "het", "tet">>[d]>>
      [] i = 1 -> <<<<"yod", "kaf", "lamed", "mem", "nun", "samekh", "ayin", "pe", "tsadi">>[d]>>
      [] i = 2 -> IF d <= 4 THEN <<<<"qof", "resh", "shin", "tav">>[d]>>
                  ELSE HundredsOver400(d)

special(k) == IF k = 0 THEN <<"vav", "tet">> ELSE <<"zayin", "tet">>

\* the test for the idiom with 16 forgotten
IsSpecialOnly15(i, x) == i = 0 /\ Mod(x, 100) = 15

\* the test for the 15/16 idiom
IsSpecial(i, x) == i = 0 /\ Mod(x, 100) \in {15, 16}

\* the while loop: x is n, i the position in the group, b the buffer so far
RECURSIVE int2gimLoop(_, _, _)
int2gimLoop(x, i, b) ==
    IF IsZero(x) THEN b
    ELSE LET i1 == IF i = 3 THEN 0 ELSE i
             b1 == IF i = 3 THEN b \o <<SEP>> ELSE b
         IN  IF IsSpecial(i1, x)
             THEN int2gimLoop(Div(x, 100), 2, b1 \o special(Mod(x, 100) - 15))
             ELSE int2gimLoop(Div(x, 10), i1 + 1,
                      IF Mod(x, 10) # 0 THEN b1 \o digits(i1, Mod(x, 10)) ELSE b1)

\* the in-place reversal of the buffer
Reverse(s) == [k \in 1..Len(s) |-> s[Len(s) + 1 - k]]

\* the switch on b[-1]
FinalForm(c) ==
    CASE c = "kaf" -> "kaf_f"
      [] c = "mem" -> "mem_f"
      [] c = "nun" -> "nun_f"
      [] c = "pe" -> "pe_f"
      [] c = "tsadi" -> "tsadi_f"
      [] OTHER -> c

EndInFinal(s) ==
    IF s = <<>> THEN s ELSE [s EXCEPT ![Len(s)] = FinalForm(s[Len(s)])]

\* the punctuation without the ' after a single letter
PunctuateNoLoneMark(s) ==
    IF s = <<>> THEN s
    ELSE IF Len(s) = 1 THEN s
    ELSE IF s[Len(s) - 1] = SEP /\ s[Len(s)] # SEP THEN s \o <<SEP>>
    ELSE IF s[Len(s)] # SEP
         THEN SubSeq(s, 1, Len(s) - 1) \o <<QUOTE, s[Len(s)]>>
    ELSE s

\* ' after a single letter, ' after a letter that follows a ', else " before the last letter
Punctuate(s) ==
    IF s = <<>> THEN s
    ELSE IF Len(s) = 1 THEN s \o <<SEP>>
    ELSE IF s[Len(s) - 1] = SEP /\ s[Len(s)] # SEP THEN s \o <<SEP>>
    ELSE IF s[Len(s)] # SEP
         THEN SubSeq(s, 1, Len(s) - 1) \o <<QUOTE, s[Len(s)]>>
    ELSE s

int2gim(x) == Punctuate(EndInFinal(Reverse(int2gimLoop(x, 0, <<>>))))

\* the bytes of the output buffer int2gim writes: the string and its NUL
BytesWritten(s) == Len(s) + 1

(***************************************************************************)
(* hspell_is_canonic_gimatria.                                             *)
(***************************************************************************)
\* the quick look, looking for the " alone
HasQuoteDoubleOnly(s) == \E k \in 1..Len(s) : s[k] = QUOTE

\* the quick look for quotes: some character of s is a " or a '
HasQuote(s) == \E k \in 1..Len(s) : s[k] \in {QUOTE, SEP}

\* the comparison returning a truth value instead of val
strcmpResultTruth(s, b, v) == IF s # b THEN Zero ELSE Word(1)

\* if(strcmp(w, buf)) val=0; return val;
strcmpResult(s, b, v) == IF s # b THEN Zero ELSE v

(***************************************************************************)
(* The inputs.                                                             *)
(***************************************************************************)
\* three-digit groups to build large arguments from
GroupSample == {0, 1, 15, 16, 40, 900, 999}

\* ((g3 * 1000 + g2) * 1000 + g1) * 1000 + g0
FromGroups(g3, g2, g1, g0) ==
    Add(Mul(Add(Mul(Word(g3 * 1000 + g2), 1000), Word(g1)), 1000), Word(g0))

\* the value fits 32 bits: at most 4,294,967,295
FitsWord(g3, g2, g1, g0) ==
    \/ g3 * 1000 + g2 < 4294
    \/ g3 * 1000 + g2 = 4294 /\ g1 * 1000 + g0 <= 967295

Numbers ==
    {Word(k) : k \in 0..MaxN}
    \cup {AsUnsigned(-5), AsUnsigned(-1)}
    \cup {FromGroups(g3, g2, g1, g0) :
             <<g3, g2, g1, g0>> \in
                 {t \in (0..4) \X GroupSample \X GroupSample \X GroupSample :
                      FitsWord(t[1], t[2], t[3], t[4])}}

Alphabet ==
    {"alef", "he", "vav", "tet", "yod", "kaf", "kaf_f", "qof", "tav", SEP, QUOTE, "h"}

Strings ==
    UNION {[1..k -> Alphabet] : k \in 0..MaxLen}
    \cup {<<"h", "e", "l", "l", "o">>}

(***************************************************************************)
(* The calls.  A run from an encoder argument encodes it and hands the     *)
(* numeral to hspell_is_canonic_gimatria; a run from a string hands the    *)
(* string to it.  hspell_is_canonic_gimatria runs statement by statement.  *)
(***************************************************************************)
Init ==
    /\ \/ src = "int" /\ n \in Numbers /\ w = <<>> /\ pc = "int2gim"
       \/ src = "str" /\ n = Zero /\ w \in Strings /\ pc = "quicklook"
    /\ val = Zero
    /\ buf = <<>>
    /\ ret = Zero

\* int2gim(n, w)
Encode ==
    /\ pc = "int2gim"
    /\ w' = int2gim(n)
    /\ pc' = "quicklook"
    /\ UNCHANGED <<src, n, val, buf, ret>>

\* for(p=w; *p && *p!='"' && *p!='\''; p++) ; if(!*p) return 0;
QuickLook ==
    /\ pc = "quicklook"
    /\ IF HasQuote(w)
       THEN pc' = "gim2int" /\ ret' = ret
       ELSE pc' = "done" /\ ret' = Zero
    /\ UNCHANGED <<src, n, w, val, buf>>

\* val=gim2int(w)
Decode ==
    /\ pc = "gim2int"
    /\ val' \in gim2intReturns(w)
    /\ pc' = "reencode"
    /\ UNCHANGED <<src, n, w, buf, ret>>

\* int2gim(val, buf)
ReEncode ==
    /\ pc = "reencode"
    /\ buf' = int2gim(val)
    /\ pc' = "strcmp"
    /\ UNCHANGED <<src, n, w, val, ret>>

\* if(strcmp(w, buf)) val=0; return val;
Compare ==
    /\ pc = "strcmp"
    /\ ret' = strcmpResult(w, buf, val)
    /\ pc' = "done"
    /\ UNCHANGED <<src, n, w, val, buf>>

Next == Encode \/ QuickLook \/ Decode \/ ReEncode \/ Compare

Spec == Init /\ [][Next]_vars

(***************************************************************************)
(* Properties.                                                             *)
(***************************************************************************)
\* x, read as an int, is not negative: x <= INT_MAX
InIntRange(x) == x.hi < Base \div 2

\* int2gim(n, w) has returned
Encoded == src = "int" /\ pc # "int2gim"

\* gim2int(w) has returned into val
Decoded == pc \in {"reencode", "strcmp", "done"} /\ HasQuote(w)

\* int2gim(val, buf) has returned
ReEncoded == pc \in {"strcmp", "done"} /\ HasQuote(w)

\* C1: hspell_is_canonic_gimatria(w) returns the value v that gim2int(w)
\* returned when w is exactly int2gim(v), and 0 otherwise; so whatever it
\* returns other than 0 is a value whose encoding is w (a string that is no
\* output of int2gim yields 0), and a string with neither a " nor a ' yields 0.
C1_ValidatorContract ==
    pc = "done" =>
        /\ \E v \in gim2intReturns(w) :
               ret = IF w = int2gim(v) THEN v ELSE Zero
        /\ ~IsZero(ret) => w = int2gim(ret)
        /\ ~HasQuote(w) => IsZero(ret)

\* a canonical numeral given as a string is accepted with its value, and
\* the strings "hello" and "" have been rejected along the way
C1_Witness ==
    /\ pc = "done"
    /\ src = "str"
    /\ w = <<"tet", QUOTE, "vav">>
    /\ ret = Word(15)

SepPositions(s) == {k \in 1..Len(s) : s[k] = SEP}

FirstSep(s) == CHOOSE k \in SepPositions(s) : \A j \in SepPositions(s) : k <= j

BeforeSep(s) == SubSeq(s, 1, FirstSep(s) - 1)

AfterSep(s) == SubSeq(s, FirstSep(s) + 1, Len(s))

\* t has a ' that is not its last character
HasInnerSep(t) == \E j \in 1..(Len(t) - 1) : t[j] = SEP

\* v * 1000 + t
ThousandsPlus(v, t) == Add(Mul(v, 1000), t)

\* C5 as stated: for S without a ' and T not empty, gim2int(S ' T) is
\* gim2int(S) * 1000 + gim2int(T), whatever T holds; and gim2int(S ') is
\* gim2int(S).  (Runs in which the int accumulator overflows are left out.)
C5_ThousandsAnyTail ==
    (Decoded /\ SepPositions(w) # {} /\ ~gim2int(w).ub) =>
        IF AfterSep(w) # <<>>
        THEN val = ThousandsPlus(gim2int(BeforeSep(w)).n, gim2int(AfterSep(w)).n)
        ELSE val = gim2int(BeforeSep(w)).n

\* C5 amended: for S without a ' and T not empty with no ' other than as its
\* last character, gim2int(S ' T) is gim2int(S) * 1000 + gim2int(T); and
\* gim2int(S ') is gim2int(S).  (Runs in which the int accumulator overflows
\* are left out.)
C5_ThousandsPlainTail ==
    (Decoded /\ SepPositions(w) # {} /\ ~gim2int(w).ub /\ ~HasInnerSep(AfterSep(w))) =>
        IF AfterSep(w) # <<>>
        THEN val = ThousandsPlus(gim2int(BeforeSep(w)).n, gim2int(AfterSep(w)).n)
        ELSE val = gim2int(BeforeSep(w)).n

\* S = alef, T = tav ': the first ' multiplies, the last one does not
C5_Witness ==
    /\ Decoded
    /\ src = "str"
    /\ w = <<"alef", SEP, "tav", SEP>>
    /\ val = Word(1400)

(***************************************************************************)
(* The letters of a numeral.                                               *)
(***************************************************************************)
IsLetter(c) == LetterValue(c) # 0

LetterPositions(s) == {k \in 1..Len(s) : IsLetter(s[k])}

LastLetter(s) ==
    s[CHOOSE k \in LetterPositions(s) : \A j \in LetterPositions(s) : j <= k]

RegularForms == {"kaf", "mem", "nun", "pe", "tsadi"}

\* C6: for every n from 1 to MaxN, the last letter of int2gim(n) is not the
\* regular form of a letter that has a final form.
C6_LastLetterFinal ==
    (Encoded /\ n.hi = 0 /\ 1 <= n.lo /\ n.lo <= MaxN) => LastLetter(w) \notin RegularForms

\* the numeral without its " marks
StripQuotes(s) == SelectSeq(s, LAMBDA c : c # QUOTE)

\* the pieces of s between its ' marks, left to right
RECURSIVE Segments(_)
Segments(s) ==
    IF SepPositions(s) = {} THEN <<s>>
    ELSE <<BeforeSep(s)>> \o Segments(AfterSep(s))

\* the number of three-digit groups of x >= 1
RECURSIVE NumGroups(_)
NumGroups(x) == IF IsZero(Div(x, 1000)) THEN 1 ELSE 1 + NumGroups(Div(x, 1000))

\* the three-digit group g of x, group 0 the lowest
RECURSIVE GroupValue(_, _)
GroupValue(x, g) == IF g = 0 THEN Mod(x, 1000) ELSE GroupValue(Div(x, 1000), g - 1)

EndsWith(s, t) == Len(s) >= Len(t) /\ SubSeq(s, Len(s) - Len(t) + 1, Len(s)) = t

\* a yod directly before a he or a vav
YodHeVav(s) == \E k \in 1..(Len(s) - 1) : s[k] = "yod" /\ s[k + 1] \in {"he", "vav"}

\* C7: int2gim(15) is tet " vav and int2gim(16) is tet " zayin; for every
\* n >= 1 each group of n whose value modulo 100 is 15 (16) is written with
\* tet vav (tet zayin) as its last letters; and no output of int2gim holds a
\* yod followed, a " between them ignored, by a he or a vav.
C7_Idiom ==
    (Encoded /\ ~IsZero(n)) =>
        /\ n = Word(15) => w = <<"tet", QUOTE, "vav">>
        /\ n = Word(16) => w = <<"tet", QUOTE, "zayin">>
        /\ LET segs == Segments(StripQuotes(w))
               G == NumGroups(n)
           IN  /\ Len(segs) >= G
               /\ \A j \in 1..G :
                      /\ GroupValue(n, G - j) % 100 = 15 => EndsWith(segs[j], <<"tet", "vav">>)
                      /\ GroupValue(n, G - j) % 100 = 16 => EndsWith(segs[j], <<"tet", "zayin">>)
        /\ ~YodHeVav(StripQuotes(w))

\* 16015: both idioms in one numeral
C7_Witness ==
    /\ Encoded
    /\ n = Word(16015)
    /\ w = <<"tet", "zayin", SEP, "tet", QUOTE, "vav">>

\* C8: int2gim of 0 and of (unsigned)-5 is the empty string.
C8_ZeroNegativeEmpty ==
    (Encoded /\ n \in {Zero, AsUnsigned(-5)}) => w = <<>>

\* C9: for every n >= 1, int2gim(n) holds a ' or a "; a single letter is
\* followed by a '; a result of several letters ends in a ' or has a " right
\* before its last character.
C9_AlwaysPunctuated ==
    (Encoded /\ ~IsZero(n)) =>
        /\ HasQuote(w)
        /\ Cardinality(LetterPositions(w)) >= 1
        /\ Cardinality(LetterPositions(w)) = 1 =>
               Len(w) >= 2 /\ IsLetter(w[1]) /\ w[2] = SEP
        /\ Cardinality(LetterPositions(w)) > 1 =>
               w[Len(w)] = SEP \/ w[Len(w) - 1] = QUOTE

\* 1: one letter and its '
C9_Witness ==
    /\ Encoded
    /\ n = Word(1)
    /\ w = <<"alef", SEP>>

\* C10: whatever int2gim is given, the string it writes and its NUL take at
\* most 30 bytes, which char buf[50] holds.
C10_BufferBudget ==
    /\ OutputBudget <= BufSize
    /\ Encoded => BytesWritten(w) <= OutputBudget
    /\ ReEncoded => BytesWritten(buf) <= OutputBudget

\* 3,999,999,999, handed on by an overflowed gim2int: 20 characters and the NUL
C10_Witness ==
    /\ ReEncoded
    /\ val = FromGroups(3, 999, 999, 999)
    /\ BytesWritten(buf) = 21

====
